---- MODULE Spec2Model ----
(***************************************************************************)
(* State-machine model of the gallery modal                                *)
(* (src/components/GalleryModal.tsx) as mounted by src/App.tsx.            *)
(*                                                                         *)
(* One action per event handler.  React state is held in the variables of  *)
(* the same name; a handler reads the values of the render it was created  *)
(* in, which is the current state whenever no passive effect is pending    *)
(* (React flushes pending passive effects before it dispatches the next    *)
(* event).  The two useEffect hooks are the action FlushEffects: it runs   *)
(* after a render whose dependency values differ from those of the         *)
(* previous render, so the state between a handler and FlushEffects is the *)
(* state of a committed render.                                            *)
(*                                                                         *)
(* scale is held in tenths (10 is 1, 25 is 2.5).  A ref holding null is    *)
(* <<>>, a ref holding v is <<v>>.  currentIndex is 0-based as in the      *)
(* source; images is a 1-based sequence, so images[currentIndex] of the    *)
(* source is images[currentIndex + 1].                                     *)
(***************************************************************************)
EXTENDS Integers, Sequences, FiniteSets, TLC

\* ------------------------------------------------------------------ bounds
MaxNavItems == 4
MaxFilter == 2
MaxTurns == 1
MaxCommits == 2
MaxCoord == 1
MaxPan == 1
MaxQuarterTurns == 5
MaxDim == 2
MaxRuns == 2

\* --------------------------------------------------------- program constants
UnitScale == 10
ZoomedScale == 25
minSwipeDistance == 50
\* App generates one image per entry of VARIATIONS (src/constants.ts), so its
\* gallery never holds more items than that.
VariationCount == 2

FILTERS ==
  << "none",
     "saturate(1.5) contrast(1.1)",
     "grayscale(100%)",
     "sepia(0.4) saturate(1.4) hue-rotate(-20deg)",
     "hue-rotate(30deg) saturate(0.8) contrast(1.1)",
     "sepia(0.6) contrast(1.2) brightness(0.9)" >>

\* The initial value of editState, and what resetEdits sets.
DefaultEdit == [filter |-> "none", rotate |-> 0, flip |-> FALSE]

Origin == [x |-> 0, y |-> 0]

\* ------------------------------------------------------------ input domains
FilterChoices == {FILTERS[i] : i \in 1..(IF MaxFilter < Len(FILTERS) THEN MaxFilter ELSE Len(FILTERS))}
Coords == 0..MaxCoord
TouchXs == {0, 51}
SwipeXs == {0, 1, 50, 51}
\* Edits given to the rasterization: any filter, flip and multiple of 90.
EditInputs ==
  [filter : FilterChoices,
   rotate : {90 * k : k \in -MaxQuarterTurns..MaxQuarterTurns},
   flip : BOOLEAN]
\* Natural sizes given to the rasterization.
ImageInputs == [width : 1..MaxDim, height : 1..MaxDim]
\* The natural sizes the image of a commit loads with: wide, high or square.
LoadedSizes ==
  {[width |-> 2, height |-> 1], [width |-> 1, height |-> 2], [width |-> 1, height |-> 1]}
Keys == {"Escape", "ArrowLeft", "ArrowRight"}

VARIABLES
  isOpen, initialIndex, images,          \* props handed down by App
  results,                               \* App's generated photos, from which it
                                         \* derives images
  originalImage,                         \* App has an uploaded image (not null)
  isGenerating,                          \* App's isGenerating
  requests,                              \* calls of processVariation in flight
  run,                                   \* generation runs started so far
  currentIndex, isEditing, editState, isSaving,
  scale, position, isDragging,
  dragStartRef, hasMovedRef, touchStartRef,
  depInitialIndex, depCurrentIndex,      \* dependency values of the last flushed render
  loads,                                 \* handleSaveEdit calls suspended at the await
  saves, loadsOk,                        \* saves started, image loads resolved
  noContext,                             \* loaded images for which getContext gave null
  updateCalls,                           \* calls of onUpdateImage made
  ptr,                                   \* the pointer over the image area:
                                         \* idle, down, captured (down and
                                         \* captured by the image area), released
  last                                   \* the last event handled and the calls it made

vars ==
  << isOpen, initialIndex, images, results, originalImage, isGenerating, requests,
     run, currentIndex, isEditing, editState, isSaving,
     scale, position, isDragging, dragStartRef, hasMovedRef, touchStartRef,
     depInitialIndex, depCurrentIndex, loads, saves, loadsOk, noContext, updateCalls,
     ptr, last >>

\* App's state of uploading and generating.
appVars == << originalImage, isGenerating, requests, run >>

\* The props App hands down, and the state of App that images derive from.
props == << isOpen, initialIndex, images, results, appVars >>
viewVars == << scale, position, isDragging >>
refVars == << dragStartRef, hasMovedRef, touchStartRef >>
editVars == << isEditing, editState >>
depVars == << depInitialIndex, depCurrentIndex >>
commitVars == << isSaving, loads, saves, loadsOk, noContext, updateCalls >>

\* The record of a handled event: the handler, its argument ("" when none is
\* recorded; the id given to onUpdateImage for a commit) and the calls it
\* made that a claim speaks of, in order.
Ev(op, arg, calls) == [op |-> op, arg |-> arg, calls |-> calls]

\* The number that stands for JavaScript's NaN; no index or coordinate of the
\* model reaches it.
NaN == -1000

\* JavaScript's + on numbers: NaN when an operand is.
JsAdd(a, b) == IF a = NaN \/ b = NaN THEN NaN ELSE a + b

\* JavaScript's % : the remainder takes the sign of the dividend, and is NaN
\* when the divisor is 0 or an operand is NaN.
JsRem(a, n) ==
  IF a = NaN \/ n = NaN \/ n = 0 THEN NaN
  ELSE IF a >= 0 THEN a % n ELSE -((-a) % n)

\* The ids of the gallery's items: App's theme ids (src/types.ts), and more
\* for a caller with more items.
ItemIds ==
  << "VARIATION_A", "VARIATION_B", "VARIATION_C", "VARIATION_D", "VARIATION_E",
     "VARIATION_F" >>

\* The generated images App hands to the modal (galleryImages).
GalleryImages(n) == [i \in 1..n |-> [id |-> ItemIds[i], url |-> 0]]

\* App's results when n photos have been generated (GeneratedPhoto); imageUrl
\* is << >> for null and << u >> for the url u.
Results(n) ==
  [i \in 1..n |-> [themeId |-> ItemIds[i], imageUrl |-> << 0 >>, isLoading |-> FALSE]]

HasImage(r) == r.imageUrl # <<>>

\* galleryImages (src/App.tsx lines 58-74), the prop images of the modal: the
\* results that have an image, in the order of results.
GalleryOf(rs) ==
  LET withImage == SelectSeq(rs, HasImage)
  IN  [i \in 1..Len(withImage) |->
         [id |-> withImage[i].themeId, url |-> withImage[i].imageUrl[1]]]

\* The modal as it is mounted, closed, over a gallery of n items, n in ns.
InitOver(ns) ==
  /\ isOpen = FALSE
  /\ initialIndex = 0
  /\ \E n \in ns : results = Results(n) /\ images = GalleryImages(n)
  /\ originalImage = (results # <<>>)
  /\ isGenerating = FALSE
  /\ requests = {}
  /\ run = 0
  /\ currentIndex = 0
  /\ isEditing = FALSE
  /\ editState = DefaultEdit
  /\ isSaving = FALSE
  /\ scale = UnitScale
  /\ position = Origin
  /\ isDragging = FALSE
  /\ dragStartRef = <<>>
  /\ hasMovedRef = FALSE
  /\ touchStartRef = <<>>
  /\ depInitialIndex = 0
  /\ depCurrentIndex = 0
  /\ loads = <<>>
  /\ saves = 0
  /\ loadsOk = 0
  /\ noContext = 0
  /\ updateCalls = 0
  /\ ptr = "idle"
  /\ last = Ev("mount", "", <<>>)

\* The modal as App mounts it, closed, over a gallery of 1 to maxN items.
InitWith(maxN) == InitOver(1..maxN)

Init == InitWith(VariationCount)

InitNav == InitWith(MaxNavItems)

\* The modal open in editing mode on an item, its edit any of EditInputs:
\* the inputs of the rasterization.
InitRaster ==
  /\ isOpen = TRUE
  /\ initialIndex = 0
  /\ \E n \in 1..VariationCount : results = Results(n) /\ images = GalleryImages(n)
  /\ originalImage = TRUE
  /\ isGenerating = FALSE
  /\ requests = {}
  /\ run = 0
  /\ currentIndex = 0
  /\ isEditing = TRUE
  /\ editState \in EditInputs
  /\ isSaving = FALSE
  /\ scale = UnitScale
  /\ position = Origin
  /\ isDragging = FALSE
  /\ dragStartRef = <<>>
  /\ hasMovedRef = FALSE
  /\ touchStartRef = <<>>
  /\ depInitialIndex = 0
  /\ depCurrentIndex = 0
  /\ loads = <<>>
  /\ saves = 0
  /\ loadsOk = 0
  /\ noContext = 0
  /\ updateCalls = 0
  /\ ptr = "idle"
  /\ last = Ev("mount", "", <<>>)

\* The modal mounted by any caller: the list may be empty.
InitProps == InitOver(0..MaxNavItems)

\* ------------------------------------------------------------------ render
\* A passive effect is pending: the last render's dependency differs from the
\* one the effect last ran with.
EffectsPending == initialIndex # depInitialIndex \/ currentIndex # depCurrentIndex

\* The modal renders its DOM (otherwise the component returns null).
Rendered == isOpen /\ Len(images) # 0

\* The render reads currentImage.url (lines 221, 291, 317) of an item that
\* does not exist: images[currentIndex] is undefined and the render throws.
\* No error boundary catches it, so React unmounts the tree: from then on no
\* effect and no handler of the component runs.
RenderFaults == Rendered /\ currentIndex \notin 0..(Len(images) - 1)

\* A DOM event of the modal can be dispatched.
Interactive == Rendered /\ ~EffectsPending /\ ~RenderFaults

\* ----------------------------------------------------------------- effects
\* resetEdits (lines 67-69): the value setEditState is given.
resetEdits == DefaultEdit

\* The passive effects of one committed render, in declaration order:
\* useEffect([initialIndex]) sets currentIndex to initialIndex; the
\* useEffect([currentIndex]) resets zoom, pan, dragging, the edit and editing
\* mode.  Each runs only if its dependency changed in this render.
FlushEffects ==
  /\ EffectsPending /\ ~RenderFaults
  /\ currentIndex' = IF initialIndex # depInitialIndex THEN initialIndex ELSE currentIndex
  /\ IF currentIndex # depCurrentIndex
       THEN /\ scale' = UnitScale
            /\ position' = Origin
            /\ isDragging' = FALSE
            /\ editState' = resetEdits
            /\ isEditing' = FALSE
       ELSE UNCHANGED << scale, position, isDragging, editState, isEditing >>
  /\ depInitialIndex' = initialIndex
  /\ depCurrentIndex' = currentIndex
  /\ last' = Ev("FlushEffects", "", <<>>)
  /\ UNCHANGED << props, refVars, commitVars, ptr >>

\* -------------------------------------------------------------- navigation
\* handleNext / handlePrev (lines 71-79): the index setCurrentIndex's updater
\* yields for the previous index prev; the index itself when the handler
\* returns early.
\* Mutant of handleNext: no early return while editing.
handleNext_NoGuard(prev) == JsRem(JsAdd(prev, 1), Len(images))

\* Mutant of handlePrev: the length is not added before the remainder.
handlePrev_NoWrap(prev) ==
  IF isEditing THEN prev ELSE JsRem(JsAdd(prev, -1), Len(images))

handleNext(prev) ==
  IF isEditing THEN prev ELSE JsRem(JsAdd(prev, 1), Len(images))

handlePrev(prev) ==
  IF isEditing THEN prev ELSE JsRem(JsAdd(JsAdd(prev, -1), Len(images)), Len(images))

\* Mutant of NavArrowsRendered: the arrows stay while zoomed or editing.
NavArrowsRendered_Always == TRUE

\* The prev / next arrows are rendered when not editing and not zoomed
\* (line 333).
NavArrowsRendered == ~isEditing /\ scale = UnitScale

PrevButtonClick ==
  /\ Interactive /\ NavArrowsRendered
  /\ currentIndex' = handlePrev(currentIndex)
  /\ last' = Ev("PrevButtonClick", "", <<>>)
  /\ UNCHANGED << props, editVars, viewVars, refVars, depVars, commitVars, ptr >>

NextButtonClick ==
  /\ Interactive /\ NavArrowsRendered
  /\ currentIndex' = handleNext(currentIndex)
  /\ last' = Ev("NextButtonClick", "", <<>>)
  /\ UNCHANGED << props, editVars, viewVars, refVars, depVars, commitVars, ptr >>

\* ---------------------------------------------------------------- keyboard
\* The window has the component's keydown listener (lines 94-97): the effect
\* adds it after every render that gives a new handleKeyDown and its cleanup
\* removes the one before, whatever isOpen is, so from the mount on one is
\* attached as long as the component is mounted.
KeyListenerAttached == ~RenderFaults

\* Mutant of handleKeyDown: Escape calls onClose while editing too.
handleKeyDown_EscapeCloses(key) ==
  /\ ~EffectsPending /\ KeyListenerAttached
  /\ IF ~isOpen
       THEN /\ UNCHANGED << isOpen, isEditing, currentIndex >>
            /\ last' = Ev("handleKeyDown", key, <<>>)
       ELSE /\ IF key = "Escape"
                 THEN /\ isOpen' = FALSE
                      /\ UNCHANGED isEditing
                      /\ last' = Ev("handleKeyDown", key, << "onClose" >>)
                 ELSE /\ UNCHANGED << isOpen, isEditing >>
                      /\ last' = Ev("handleKeyDown", key, <<>>)
            /\ IF scale = UnitScale /\ ~isEditing
                 THEN currentIndex' =
                        IF key = "ArrowRight" THEN handleNext(currentIndex)
                        ELSE IF key = "ArrowLeft" THEN handlePrev(currentIndex)
                        ELSE currentIndex
                 ELSE UNCHANGED currentIndex
  /\ UNCHANGED << initialIndex, images, results, appVars, editState, viewVars,
                  refVars, depVars,
                  commitVars, ptr >>

\* handleKeyDown (lines 81-92), the window's keydown listener.
handleKeyDown(key) ==
  /\ ~EffectsPending /\ KeyListenerAttached
  /\ IF ~isOpen
       THEN /\ UNCHANGED << isOpen, isEditing, currentIndex >>
            /\ last' = Ev("handleKeyDown", key, <<>>)
       ELSE /\ IF key = "Escape"
                 THEN IF isEditing
                        THEN /\ isEditing' = FALSE
                             /\ UNCHANGED isOpen
                             /\ last' = Ev("handleKeyDown", key, <<>>)
                        ELSE /\ isOpen' = FALSE
                             /\ UNCHANGED isEditing
                             /\ last' = Ev("handleKeyDown", key, << "onClose" >>)
                 ELSE /\ UNCHANGED << isOpen, isEditing >>
                      /\ last' = Ev("handleKeyDown", key, <<>>)
            /\ IF scale = UnitScale /\ ~isEditing
                 THEN currentIndex' =
                        IF key = "ArrowRight" THEN handleNext(currentIndex)
                        ELSE IF key = "ArrowLeft" THEN handlePrev(currentIndex)
                        ELSE currentIndex
                 ELSE UNCHANGED currentIndex
  /\ UNCHANGED << initialIndex, images, results, appVars, editState, viewVars,
                  refVars, depVars,
                  commitVars, ptr >>

\* --------------------------------------------------------------- lifecycle
\* App.openGallery (src/App.tsx lines 130-136): a result card is clicked.
openGallery(idx) ==
  /\ ~isOpen
  /\ ~EffectsPending
  /\ idx \in 0..(Len(images) - 1)
  /\ initialIndex' = idx
  /\ isOpen' = TRUE
  /\ last' = Ev("openGallery", "", <<>>)
  /\ UNCHANGED << images, results, appVars, currentIndex, editVars, viewVars,
                  refVars, depVars,
                  commitVars, ptr >>

\* A caller of the component opens it with an initial index of its choice
\* (props isOpen and initialIndex, lines 27-33).
OpenWith(idx) ==
  /\ ~isOpen
  /\ ~EffectsPending /\ ~RenderFaults
  /\ initialIndex' = idx
  /\ isOpen' = TRUE
  /\ last' = Ev("OpenWith", "", <<>>)
  /\ UNCHANGED << images, results, appVars, currentIndex, editVars, viewVars,
                  refVars, depVars,
                  commitVars, ptr >>

\* The header's left button when not editing: onClose, and the click bubbles
\* to the root element, whose onClick is onClose too.
CloseButtonClick ==
  /\ Interactive /\ ~isEditing
  /\ isOpen' = FALSE
  /\ last' = Ev("CloseButtonClick", "", << "onClose", "onClose" >>)
  /\ UNCHANGED << initialIndex, images, results, appVars, currentIndex, editVars,
                  viewVars, refVars,
                  depVars, commitVars, ptr >>

\* A click that reaches the root element (line 226).
BackdropClick ==
  /\ Interactive /\ ~isEditing
  /\ isOpen' = FALSE
  /\ last' = Ev("BackdropClick", "", << "onClose" >>)
  /\ UNCHANGED << initialIndex, images, results, appVars, currentIndex, editVars,
                  viewVars, refVars,
                  depVars, commitVars, ptr >>

\* The header's left button while editing (line 232).
CancelButtonClick ==
  /\ Interactive /\ isEditing
  /\ isEditing' = FALSE
  /\ last' = Ev("CancelButtonClick", "", <<>>)
  /\ UNCHANGED << props, currentIndex, editState, viewVars, refVars, depVars,
                  commitVars, ptr >>

\* Mutant of EditButtonClick: entering editing mode keeps the zoom.
EditButtonClick_KeepsZoom ==
  /\ Interactive /\ ~isEditing
  /\ isEditing' = TRUE
  /\ last' = Ev("EditButtonClick", "", <<>>)
  /\ UNCHANGED << props, currentIndex, editState, viewVars, refVars, depVars,
                  commitVars, ptr >>

\* Mutant of EditButtonClick: entering editing mode keeps the pan.
EditButtonClick_KeepsPan ==
  /\ Interactive /\ ~isEditing
  /\ isEditing' = TRUE
  /\ scale' = UnitScale
  /\ last' = Ev("EditButtonClick", "", <<>>)
  /\ UNCHANGED << props, currentIndex, editState, position, isDragging, refVars,
                  depVars, commitVars, ptr >>

\* The edit button (line 267).
EditButtonClick ==
  /\ Interactive /\ ~isEditing
  /\ isEditing' = TRUE
  /\ scale' = UnitScale
  /\ position' = Origin
  /\ last' = Ev("EditButtonClick", "", <<>>)
  /\ UNCHANGED << props, currentIndex, editState, isDragging, refVars, depVars,
                  commitVars, ptr >>

\* ------------------------------------------------------------ edit toolbar
\* The updater of the rotate button (line 360): a quarter turn to the left.
rotateQuarterTurn(p) == [p EXCEPT !.rotate = @ - 90]

\* Mutant of toggleFlip: the button sets the flip.
toggleFlip_Sets(p) == [p EXCEPT !.flip = TRUE]

\* The updater of the flip button (line 369).
toggleFlip(p) == [p EXCEPT !.flip = ~@]

\* The rotate button (line 360).
RotateButtonClick ==
  /\ Interactive /\ isEditing
  /\ editState.rotate > -90 * MaxTurns
  /\ editState' = rotateQuarterTurn(editState)
  /\ last' = Ev("RotateButtonClick", "", <<>>)
  /\ UNCHANGED << props, currentIndex, isEditing, viewVars, refVars, depVars,
                  commitVars, ptr >>

\* The flip button (line 369).
FlipButtonClick ==
  /\ Interactive /\ isEditing
  /\ editState' = toggleFlip(editState)
  /\ last' = Ev("FlipButtonClick", "", <<>>)
  /\ UNCHANGED << props, currentIndex, isEditing, viewVars, refVars, depVars,
                  commitVars, ptr >>

\* A filter preset's button (line 384).
FilterButtonClick(f) ==
  /\ Interactive /\ isEditing
  /\ editState' = [editState EXCEPT !.filter = f]
  /\ last' = Ev("FilterButtonClick", "", <<>>)
  /\ UNCHANGED << props, currentIndex, isEditing, viewVars, refVars, depVars,
                  commitVars, ptr >>

\* -------------------------------------------------------------------- zoom
\* Mutant of toggleZoom: zooming out keeps the pan.
toggleZoom_KeepsPan ==
  IF isEditing
    THEN UNCHANGED << scale, position >>
    ELSE IF scale > UnitScale
           THEN scale' = UnitScale /\ UNCHANGED position
           ELSE scale' = ZoomedScale /\ UNCHANGED position

\* toggleZoom (lines 100-108).
toggleZoom ==
  IF isEditing
    THEN UNCHANGED << scale, position >>
    ELSE IF scale > UnitScale
           THEN scale' = UnitScale /\ position' = Origin
           ELSE scale' = ZoomedScale /\ UNCHANGED position

\* The zoom button (line 276), rendered when not editing.
ZoomButtonClick ==
  /\ Interactive /\ ~isEditing
  /\ toggleZoom
  /\ last' = Ev("ZoomButtonClick", "", <<>>)
  /\ UNCHANGED << props, currentIndex, editVars, isDragging, refVars, depVars,
                  commitVars, ptr >>

\* --------------------------------------------------------------------- pan
InPanRange(p) == p.x \in -MaxPan..MaxPan /\ p.y \in -MaxPan..MaxPan

\* The pointer is pressed on the image area, captured by it or not.
PointerIsDown == ptr \in {"down", "captured"}

\* handlePointerDown (lines 111-122) at client position (x, y); a pan that
\* starts calls setPointerCapture with the id of the pointer (line 120).
handlePointerDown(x, y) ==
  /\ Interactive /\ ~PointerIsDown
  /\ hasMovedRef' = FALSE
  /\ IF scale > UnitScale /\ ~isEditing
       THEN /\ isDragging' = TRUE
            /\ dragStartRef' = << [x |-> x - position.x, y |-> y - position.y] >>
            /\ ptr' = "captured"
            /\ last' = Ev("handlePointerDown", "", << "setPointerCapture" >>)
       ELSE /\ UNCHANGED << isDragging, dragStartRef >>
            /\ ptr' = "down"
            /\ last' = Ev("handlePointerDown", "", <<>>)
  /\ UNCHANGED << props, currentIndex, editVars, scale, position, touchStartRef,
                  depVars, commitVars >>

\* handlePointerMove (lines 124-132) at client position (x, y).
handlePointerMove(x, y) ==
  /\ Interactive
  /\ IF scale > UnitScale /\ isDragging /\ dragStartRef # <<>> /\ ~isEditing
       THEN /\ InPanRange([x |-> x - dragStartRef[1].x, y |-> y - dragStartRef[1].y])
            /\ hasMovedRef' = TRUE
            /\ position' = [x |-> x - dragStartRef[1].x, y |-> y - dragStartRef[1].y]
       ELSE UNCHANGED << hasMovedRef, position >>
  /\ last' = Ev("handlePointerMove", "", <<>>)
  /\ UNCHANGED << props, currentIndex, editVars, scale, isDragging, dragStartRef,
                  touchStartRef, depVars, commitVars, ptr >>

\* handlePointerUp (lines 134-140); while dragging it calls
\* releasePointerCapture with the id of the pointer (line 138), which does
\* nothing when the pointer is not captured.  After a pointer-up the browser
\* ends any capture of that pointer.
handlePointerUp ==
  /\ Interactive /\ PointerIsDown
  /\ IF isDragging
       THEN /\ isDragging' = FALSE /\ dragStartRef' = <<>>
            /\ last' = Ev("handlePointerUp", "", << "releasePointerCapture" >>)
       ELSE /\ UNCHANGED << isDragging, dragStartRef >>
            /\ last' = Ev("handlePointerUp", "", <<>>)
  /\ ptr' = "released"
  /\ UNCHANGED << props, currentIndex, editVars, scale, position, hasMovedRef,
                  touchStartRef, depVars, commitVars >>

\* The browser cancels the pointer and ends any capture of it: the image area
\* has no onPointerCancel (lines 307-314), so no handler runs.
PointerCancel ==
  /\ Interactive /\ PointerIsDown
  /\ ptr' = "idle"
  /\ last' = Ev("PointerCancel", "", <<>>)
  /\ UNCHANGED << props, currentIndex, editVars, viewVars, refVars, depVars,
                  commitVars >>

\* Mutant of handleImageClick: the click toggles the zoom also after a drag.
handleImageClick_IgnoresMoved ==
  /\ Interactive /\ ptr = "released"
  /\ IF ~isEditing
       THEN toggleZoom /\ last' = Ev("handleImageClick", "", << "toggleZoom" >>)
       ELSE UNCHANGED << scale, position >> /\ last' = Ev("handleImageClick", "", <<>>)
  /\ hasMovedRef' = FALSE
  /\ ptr' = "idle"
  /\ UNCHANGED << props, currentIndex, editVars, isDragging, dragStartRef,
                  touchStartRef, depVars, commitVars >>

\* handleImageClick (lines 142-148): the click that follows a pointer-up on
\* the image.
handleImageClick ==
  /\ Interactive /\ ptr = "released"
  /\ IF ~hasMovedRef /\ ~isEditing
       THEN toggleZoom /\ last' = Ev("handleImageClick", "", << "toggleZoom" >>)
       ELSE UNCHANGED << scale, position >> /\ last' = Ev("handleImageClick", "", <<>>)
  /\ hasMovedRef' = FALSE
  /\ ptr' = "idle"
  /\ UNCHANGED << props, currentIndex, editVars, isDragging, dragStartRef,
                  touchStartRef, depVars, commitVars >>

\* ------------------------------------------------------------------- swipe
\* handleTouchStart (lines 151-154) at horizontal position x.
handleTouchStart(x) ==
  /\ Interactive
  /\ IF scale > UnitScale \/ isEditing
       THEN UNCHANGED touchStartRef
       ELSE touchStartRef' = << x >>
  /\ last' = Ev("handleTouchStart", "", <<>>)
  /\ UNCHANGED << props, currentIndex, editVars, viewVars, dragStartRef,
                  hasMovedRef, depVars, commitVars, ptr >>

Abs(d) == IF d < 0 THEN -d ELSE d

\* Mutant of handleTouchEnd: a swipe of exactly minSwipeDistance navigates.
handleTouchEnd_AtThreshold(x) ==
  /\ Interactive
  /\ IF scale > UnitScale \/ touchStartRef = <<>> \/ isEditing
       THEN /\ UNCHANGED << currentIndex, touchStartRef >>
            /\ last' = Ev("handleTouchEnd", "", <<>>)
       ELSE /\ currentIndex' =
                 IF Abs(touchStartRef[1] - x) >= minSwipeDistance
                   THEN IF touchStartRef[1] - x > 0
                          THEN handleNext(currentIndex)
                          ELSE handlePrev(currentIndex)
                   ELSE currentIndex
            /\ touchStartRef' = <<>>
            /\ last' = Ev("handleTouchEnd", ToString(touchStartRef[1] - x), <<>>)
  /\ UNCHANGED << props, editVars, viewVars, dragStartRef, hasMovedRef, depVars,
                  commitVars, ptr >>

\* handleTouchEnd (lines 156-167) at horizontal position x.  The recorded
\* argument is the distance it computed ("" when it returned before that).
handleTouchEnd(x) ==
  /\ Interactive
  /\ IF scale > UnitScale \/ touchStartRef = <<>> \/ isEditing
       THEN /\ UNCHANGED << currentIndex, touchStartRef >>
            /\ last' = Ev("handleTouchEnd", "", <<>>)
       ELSE /\ currentIndex' =
                 IF Abs(touchStartRef[1] - x) > minSwipeDistance
                   THEN IF touchStartRef[1] - x > 0
                          THEN handleNext(currentIndex)
                          ELSE handlePrev(currentIndex)
                   ELSE currentIndex
            /\ touchStartRef' = <<>>
            /\ last' = Ev("handleTouchEnd", ToString(touchStartRef[1] - x), <<>>)
  /\ UNCHANGED << props, editVars, viewVars, dragStartRef, hasMovedRef, depVars,
                  commitVars, ptr >>

\* ------------------------------------------------------------------ commit
\* Mutant of SaveDisabled: the button is never disabled.
SaveDisabled_Never == FALSE

\* The save button is rendered disabled while isSaving (line 249).
SaveDisabled == isSaving

\* handleSaveEdit up to its await (lines 170-181): the image shown and the
\* edit of this render are captured, and the image load starts.  A click on
\* the disabled button dispatches nothing.
SaveButtonClick ==
  /\ Interactive /\ isEditing
  /\ IF SaveDisabled
       THEN /\ UNCHANGED << isSaving, loads, saves >>
            /\ last' = Ev("SaveButtonClick", "disabled", <<>>)
       ELSE /\ saves < MaxCommits
            /\ isSaving' = TRUE
            /\ loads' = Append(loads, [image |-> images[currentIndex + 1],
                                       editState |-> editState])
            /\ saves' = saves + 1
            /\ last' = Ev("SaveButtonClick", "", <<>>)
  /\ UNCHANGED << props, currentIndex, editVars, viewVars, refVars, depVars,
                  loadsOk, noContext, updateCalls, ptr >>

Remove(seq, k) == [i \in 1..(Len(seq) - 1) |-> IF i < k THEN seq[i] ELSE seq[i + 1]]

\* Mutant of isRotated90: only a positive remainder counts as a quarter turn.
isRotated90_Positive(edit) == JsRem(edit.rotate, 180) > 0

\* isRotated90 (line 188).
isRotated90(edit) == JsRem(edit.rotate, 180) # 0

\* The angle in 0..359 that turns as deg degrees do.
Turn(deg) == deg % 360

\* Math.cos and Math.sin of a multiple of 90 degrees, as ctx.rotate uses them
\* (line 199).
Cos(deg) == << 1, 0, -1, 0 >>[(Turn(deg) \div 90) + 1]

Sin(deg) == << 0, 1, 0, -1 >>[(Turn(deg) \div 90) + 1]

\* Mutant of drawCanvas: the transform keeps the stored angle as it is.
drawCanvas_StoredAngle(img, edit) ==
  [width |-> IF isRotated90(edit) THEN img.height ELSE img.width,
   height |-> IF isRotated90(edit) THEN img.width ELSE img.height,
   filter |-> edit.filter,
   transform |-> << edit.rotate, IF edit.flip THEN -1 ELSE 1 >>]

\* The canvas handleSaveEdit draws the loaded image img on (lines 183-205):
\* its size, its filter, and the linear part (a, b, c, d) of the transform
\* after ctx.rotate and ctx.scale, under which the image is drawn centred.
drawCanvas(img, edit) ==
  [width |-> IF isRotated90(edit) THEN img.height ELSE img.width,
   height |-> IF isRotated90(edit) THEN img.width ELSE img.height,
   filter |-> edit.filter,
   transform |-> LET cos == Cos(edit.rotate)
                     sin == Sin(edit.rotate)
                     sx == IF edit.flip THEN -1 ELSE 1
                 IN  << cos * sx, sin * sx, -sin, cos >>]

\* The record of a commit that drew its canvas: as Ev, with the loaded image,
\* the edit the handler closed over and the canvas it drew.
EvDrawn(id, calls, img, edit) ==
  [op |-> "LoadResolved", arg |-> id, calls |-> calls,
   img |-> img, edit |-> edit, canvas |-> drawCanvas(img, edit)]

\* canvas.toDataURL (line 207): the reference of the new raster.
toDataURL(image, edit) == image.url + 1

\* App.handleImageUpdate (src/App.tsx lines 138-144): the result with that
\* theme id gets the new url.
handleImageUpdate(id, newUrl) ==
  [i \in 1..Len(results) |->
     IF results[i].themeId = id
       THEN [results[i] EXCEPT !.imageUrl = << newUrl >>]
       ELSE results[i]]

\* Mutant of UpdatedId: the id of the image shown when the load completes.
UpdatedId_Displayed(load) == images[currentIndex + 1].id

\* The id handleSaveEdit passes to onUpdateImage (line 208): that of the image
\* captured before the await.
UpdatedId(load) == load.image.id

\* Mutant of LoadResolved: the success path does not reset the edit.
LoadResolved_KeepsEdit(k, ctx) ==
  /\ k \in 1..Len(loads)
  /\ loads' = Remove(loads, k)
  /\ loadsOk' = loadsOk + 1
  /\ IF ctx
       THEN /\ updateCalls' = updateCalls + 1
            /\ UNCHANGED noContext
            /\ results' = handleImageUpdate(UpdatedId(loads[k]),
                                            toDataURL(loads[k].image, loads[k].editState))
            /\ images' = GalleryOf(results')
            /\ isEditing' = FALSE
            /\ UNCHANGED editState
            /\ \E img \in LoadedSizes :
                 last' = EvDrawn(UpdatedId(loads[k]),
                                 << "onUpdateImage", "setIsEditing", "setIsSaving" >>,
                                 img, loads[k].editState)
       ELSE /\ noContext' = noContext + 1
            /\ UNCHANGED << updateCalls, images, results, isEditing, editState >>
            /\ last' = Ev("LoadResolved", "", << "alert", "setIsSaving" >>)
  /\ isSaving' = FALSE
  /\ UNCHANGED << isOpen, initialIndex, currentIndex, appVars, viewVars, refVars,
                  depVars,
                  saves, ptr >>

\* handleSaveEdit after the await when the image loaded (lines 183-210,
\* 214-216).  ctx is whether getContext gave a drawing context; the image
\* loads with one of the natural sizes LoadedSizes.
LoadResolved(k, ctx) ==
  /\ k \in 1..Len(loads)
  /\ loads' = Remove(loads, k)
  /\ loadsOk' = loadsOk + 1
  /\ IF ctx
       THEN /\ updateCalls' = updateCalls + 1
            /\ UNCHANGED noContext
            /\ results' = handleImageUpdate(UpdatedId(loads[k]),
                                            toDataURL(loads[k].image, loads[k].editState))
            /\ images' = GalleryOf(results')
            /\ isEditing' = FALSE
            /\ editState' = resetEdits
            /\ \E img \in LoadedSizes :
                 last' = EvDrawn(UpdatedId(loads[k]),
                                 << "onUpdateImage", "setIsEditing", "resetEdits",
                                    "setIsSaving" >>,
                                 img, loads[k].editState)
       ELSE /\ noContext' = noContext + 1
            /\ UNCHANGED << updateCalls, images, results, isEditing, editState >>
            /\ last' = Ev("LoadResolved", "", << "alert", "setIsSaving" >>)
  /\ isSaving' = FALSE
  /\ UNCHANGED << isOpen, initialIndex, currentIndex, appVars, viewVars, refVars,
                  depVars,
                  saves, ptr >>

\* Mutant of LoadRejected: the failure path calls onUpdateImage.
LoadRejected_Emits(k) ==
  /\ k \in 1..Len(loads)
  /\ loads' = Remove(loads, k)
  /\ isSaving' = FALSE
  /\ updateCalls' = updateCalls + 1
  /\ results' = handleImageUpdate(UpdatedId(loads[k]),
                                  toDataURL(loads[k].image, loads[k].editState))
  /\ images' = GalleryOf(results')
  /\ last' = Ev("LoadRejected", "", << "onUpdateImage", "alert", "setIsSaving" >>)
  /\ UNCHANGED << isOpen, initialIndex, currentIndex, appVars, editVars, viewVars,
                  refVars,
                  depVars, saves, loadsOk, noContext, ptr >>

\* Mutant of LoadRejected: the failure path leaves editing mode and resets
\* the edit, as the success path does.
LoadRejected_Resets(k) ==
  /\ k \in 1..Len(loads)
  /\ loads' = Remove(loads, k)
  /\ isSaving' = FALSE
  /\ isEditing' = FALSE
  /\ editState' = resetEdits
  /\ last' = Ev("LoadRejected", "", << "alert", "setIsSaving" >>)
  /\ UNCHANGED << props, currentIndex, viewVars, refVars, depVars,
                  saves, loadsOk, noContext, updateCalls, ptr >>

\* Mutant of LoadRejected: the failure path has no finally, isSaving stays.
LoadRejected_KeepsSaving(k) ==
  /\ k \in 1..Len(loads)
  /\ loads' = Remove(loads, k)
  /\ last' = Ev("LoadRejected", "", << "alert" >>)
  /\ UNCHANGED << props, currentIndex, editVars, viewVars, refVars, depVars,
                  isSaving, saves, loadsOk, noContext, updateCalls, ptr >>

\* handleSaveEdit after the await when the image failed to load (lines
\* 211-216).
LoadRejected(k) ==
  /\ k \in 1..Len(loads)
  /\ loads' = Remove(loads, k)
  /\ isSaving' = FALSE
  /\ last' = Ev("LoadRejected", "", << "alert", "setIsSaving" >>)
  /\ UNCHANGED << props, currentIndex, editVars, viewVars, refVars, depVars,
                  saves, loadsOk, noContext, updateCalls, ptr >>

\* --------------------------------------------------------------------- App
\* App.handleImageUpload (src/App.tsx lines 76-80), called by the uploader,
\* which is rendered while there is no original image (lines 205-215): the
\* image is stored and the results are emptied.
handleImageUpload ==
  /\ ~RenderFaults /\ ~EffectsPending
  /\ ~originalImage
  /\ originalImage' = TRUE
  /\ results' = <<>>
  /\ images' = GalleryOf(results')
  /\ last' = Ev("handleImageUpload", "", <<>>)
  /\ UNCHANGED << isOpen, initialIndex, isGenerating, requests, run, currentIndex,
                  editVars, viewVars, refVars, depVars, commitVars, ptr >>

\* The restart button of the header (src/App.tsx lines 189-195), rendered
\* while there is an original image.
RestartButtonClick ==
  /\ ~RenderFaults /\ ~EffectsPending
  /\ originalImage
  /\ originalImage' = FALSE
  /\ results' = <<>>
  /\ images' = GalleryOf(results')
  /\ isGenerating' = FALSE
  /\ last' = Ev("RestartButtonClick", "", <<>>)
  /\ UNCHANGED << isOpen, initialIndex, requests, run, currentIndex, editVars,
                  viewVars, refVars, depVars, commitVars, ptr >>

\* App.handleGenerate (src/App.tsx lines 82-102), with a prompt typed in: it
\* returns at once without an original image or while generating; else it
\* sets isGenerating, puts one loading placeholder without image per
\* variation into results, and calls processVariation for each.
handleGenerate ==
  /\ ~RenderFaults /\ ~EffectsPending
  /\ originalImage /\ ~isGenerating
  /\ run < MaxRuns
  /\ isGenerating' = TRUE
  /\ run' = run + 1
  /\ results' = [i \in 1..VariationCount |->
                   [themeId |-> ItemIds[i], imageUrl |-> <<>>, isLoading |-> TRUE]]
  /\ images' = GalleryOf(results')
  /\ requests' = requests \cup {[themeId |-> ItemIds[i], run |-> run + 1] :
                                   i \in 1..VariationCount}
  /\ last' = Ev("handleGenerate", "", <<>>)
  /\ UNCHANGED << isOpen, initialIndex, originalImage, currentIndex, editVars,
                  viewVars, refVars, depVars, commitVars, ptr >>

\* The record of a call of processVariation that has just settled.
EvSettled(req, ok, wrote) ==
  [op |-> "processVariation", arg |-> req.themeId, calls |-> <<>>,
   run |-> req.run, ok |-> ok, wrote |-> wrote]

\* App.processVariation (src/App.tsx lines 104-128) after its await, when
\* the request req settles: the result of its theme, if results has one,
\* stops loading, and gets the generated image if there is one; then
\* isGenerating is cleared if no result is loading.
processVariation(req, ok) ==
  /\ ~RenderFaults /\ ~EffectsPending
  /\ req \in requests
  /\ requests' = requests \ {req}
  /\ results' = [i \in 1..Len(results) |->
                   IF results[i].themeId = req.themeId
                     THEN [results[i] EXCEPT
                             !.imageUrl = IF ok THEN << 0 >> ELSE @,
                             !.isLoading = FALSE]
                     ELSE results[i]]
  /\ images' = GalleryOf(results')
  /\ isGenerating' = IF \A i \in 1..Len(results') : ~results'[i].isLoading
                        THEN FALSE
                        ELSE isGenerating
  /\ last' = EvSettled(req, ok,
                       ok /\ \E i \in 1..Len(results) : results[i].themeId = req.themeId)
  /\ UNCHANGED << isOpen, initialIndex, originalImage, run, currentIndex, editVars,
                  viewVars, refVars, depVars, commitVars, ptr >>

\* The requests that can be in flight.
Requests == [themeId : {ItemIds[i] : i \in 1..VariationCount}, run : 1..MaxRuns]

\* ---------------------------------------------------------- specification
\* The handlers of the modal's life cycle, navigation, edit toolbar and commit.
NextEdit ==
  \/ FlushEffects
  \/ PrevButtonClick
  \/ NextButtonClick
  \/ \E key \in Keys : handleKeyDown(key)
  \/ \E idx \in 0..(VariationCount - 1) : openGallery(idx)
  \/ CloseButtonClick
  \/ BackdropClick
  \/ CancelButtonClick
  \/ EditButtonClick
  \/ RotateButtonClick
  \/ FlipButtonClick
  \/ \E f \in FilterChoices : FilterButtonClick(f)
  \/ ZoomButtonClick
  \/ \E x \in TouchXs : handleTouchStart(x)
  \/ \E x \in TouchXs : handleTouchEnd(x)
  \/ SaveButtonClick
  \/ \E k \in 1..MaxCommits, ctx \in BOOLEAN : LoadResolved(k, ctx)
  \/ \E k \in 1..MaxCommits : LoadRejected(k)

\* The handlers of the pointer over the image area.
NextPointer ==
  \/ \E x \in Coords, y \in Coords : handlePointerDown(x, y)
  \/ \E x \in Coords, y \in Coords : handlePointerMove(x, y)
  \/ handlePointerUp
  \/ PointerCancel
  \/ handleImageClick

Next == NextEdit \/ NextPointer

\* Every handler.
SpecAll == Init /\ [][Next]_vars

\* The modal without the pointer over the image area.
Spec == Init /\ [][NextEdit]_vars

\* The handlers that open and close the modal, navigate, edit and commit.
NextCommit ==
  \/ FlushEffects
  \/ PrevButtonClick
  \/ NextButtonClick
  \/ \E key \in Keys : handleKeyDown(key)
  \/ \E idx \in 0..(VariationCount - 1) : openGallery(idx)
  \/ CancelButtonClick
  \/ EditButtonClick
  \/ RotateButtonClick
  \/ FlipButtonClick
  \/ \E f \in FilterChoices : FilterButtonClick(f)
  \/ SaveButtonClick
  \/ \E k \in 1..MaxCommits, ctx \in BOOLEAN : LoadResolved(k, ctx)
  \/ \E k \in 1..MaxCommits : LoadRejected(k)

SpecCommit == Init /\ [][NextCommit]_vars

\* The image load of a suspended handleSaveEdit settles: the browser fires
\* onload or onerror of the image (lines 178-181) and the handler resumes.
LoadSettles ==
  \/ \E k \in 1..MaxCommits, ctx \in BOOLEAN : LoadResolved(k, ctx)
  \/ \E k \in 1..MaxCommits : LoadRejected(k)

\* The handlers around a commit: open, navigate, keys, cancel, edit, flip,
\* save and the settling of the image load.
NextSettle ==
  \/ FlushEffects
  \/ NextButtonClick
  \/ \E key \in Keys : handleKeyDown(key)
  \/ \E idx \in 0..(VariationCount - 1) : openGallery(idx)
  \/ CancelButtonClick
  \/ EditButtonClick
  \/ FlipButtonClick
  \/ SaveButtonClick
  \/ LoadSettles

\* Every image load settles: an Image whose src was set (line 176) fires one
\* of load and error, and the continuation of the await then runs.
SpecSettle == Init /\ [][NextSettle]_vars /\ WF_vars(LoadSettles)

\* App as it mounts the modal: no results yet.
InitApp == InitOver({0})

\* App and the modal: upload, generation, and the modal's life cycle,
\* navigation, edit mode and commit.
NextApp ==
  \/ handleImageUpload
  \/ handleGenerate
  \/ RestartButtonClick
  \/ \E req \in Requests, ok \in BOOLEAN : processVariation(req, ok)
  \/ \E idx \in 0..(VariationCount - 1) : openGallery(idx)
  \/ FlushEffects
  \/ PrevButtonClick
  \/ NextButtonClick
  \/ \E key \in Keys : handleKeyDown(key)
  \/ CloseButtonClick
  \/ CancelButtonClick
  \/ EditButtonClick
  \/ FlipButtonClick
  \/ SaveButtonClick
  \/ LoadSettles

SpecApp == InitApp /\ [][NextApp]_vars

\* The handlers that open, close and navigate, over longer galleries.
NextNav ==
  \/ FlushEffects
  \/ PrevButtonClick
  \/ NextButtonClick
  \/ \E key \in Keys : handleKeyDown(key)
  \/ \E idx \in 0..(MaxNavItems - 1) : openGallery(idx)
  \/ CloseButtonClick
  \/ CancelButtonClick
  \/ EditButtonClick
  \/ ZoomButtonClick
  \/ \E x \in TouchXs : handleTouchStart(x)
  \/ \E x \in TouchXs : handleTouchEnd(x)

SpecNav == InitNav /\ [][NextNav]_vars

\* The handlers of viewing: life cycle, navigation, zoom and the pointer over
\* the image area.
NextView ==
  \/ FlushEffects
  \/ PrevButtonClick
  \/ NextButtonClick
  \/ \E key \in Keys : handleKeyDown(key)
  \/ \E idx \in 0..(VariationCount - 1) : openGallery(idx)
  \/ CancelButtonClick
  \/ EditButtonClick
  \/ ZoomButtonClick
  \/ NextPointer

SpecView == Init /\ [][NextView]_vars

\* The component under any caller: opened at any index, in range or not,
\* over any list, empty or not.  A render that throws ends the component.
NextProps ==
  \/ FlushEffects
  \/ \E idx \in -1..MaxNavItems : OpenWith(idx)
  \/ \E key \in Keys : handleKeyDown(key)
  \/ PrevButtonClick
  \/ NextButtonClick
  \/ CloseButtonClick
  \/ ZoomButtonClick

SpecProps == InitProps /\ [][NextProps]_vars

\* Viewing and committing: the handlers of viewing, the save button and the
\* completion of a commit.
NextViewCommit ==
  \/ FlushEffects
  \/ NextButtonClick
  \/ \E idx \in 0..(VariationCount - 1) : openGallery(idx)
  \/ CloseButtonClick
  \/ CancelButtonClick
  \/ EditButtonClick
  \/ ZoomButtonClick
  \/ NextPointer
  \/ SaveButtonClick
  \/ \E k \in 1..MaxCommits, ctx \in BOOLEAN : LoadResolved(k, ctx)
  \/ \E k \in 1..MaxCommits : LoadRejected(k)

SpecViewCommit == Init /\ [][NextViewCommit]_vars

\* The edit toolbar and the commit, from any edit.
NextRaster ==
  \/ EditButtonClick
  \/ CancelButtonClick
  \/ RotateButtonClick
  \/ FlipButtonClick
  \/ \E f \in FilterChoices : FilterButtonClick(f)
  \/ SaveButtonClick
  \/ \E k \in 1..MaxCommits, ctx \in BOOLEAN : LoadResolved(k, ctx)
  \/ \E k \in 1..MaxCommits : LoadRejected(k)

SpecRaster == InitRaster /\ [][NextRaster]_vars

\* The handlers of a swipe, with touch positions around minSwipeDistance.
NextSwipe ==
  \/ FlushEffects
  \/ \E key \in Keys : handleKeyDown(key)
  \/ \E idx \in 0..(MaxNavItems - 1) : openGallery(idx)
  \/ EditButtonClick
  \/ ZoomButtonClick
  \/ \E x \in SwipeXs : handleTouchStart(x)
  \/ \E x \in SwipeXs : handleTouchEnd(x)

SpecSwipe == InitNav /\ [][NextSwipe]_vars

\* ------------------------------------------------------------------ claims

\* C1 (as claimed): in no committed render does currentIndex have a new value
\* (one the reset effect has not yet run for) while scale, pan, the edit or
\* editing mode still hold non-default values.
C1_ResetSynchronousWithIndexChange ==
  currentIndex # depCurrentIndex =>
    /\ scale = UnitScale
    /\ position = Origin
    /\ editState = DefaultEdit
    /\ ~isEditing

\* C2: at most one commit is in flight, isSaving is true exactly while it is,
\* a click on the save button while it is in flight starts nothing, and every
\* call of onUpdateImage belongs to a started commit of its own.
C2_SingleFlight ==
  /\ Len(loads) <= 1
  /\ isSaving <=> Len(loads) = 1
  /\ updateCalls + Len(loads) <= saves
  /\ (last.op = "SaveButtonClick" /\ last.arg = "disabled") => Len(loads) = 1

\* C2 witness: with a commit in flight the user left editing mode, went to
\* another item, entered editing mode again and clicked save.
C2_Witness ==
  /\ last = Ev("SaveButtonClick", "disabled", <<>>)
  /\ Len(loads) = 1
  /\ images[currentIndex + 1].id # loads[1].image.id

\* C3 (as claimed): whenever the modal is not in editing mode (and the last
\* step was not the completion of a commit) the edit equals the defaults.
C3_ExitWithoutSaveResetsEdit ==
  (~isEditing /\ last.op \notin {"LoadResolved", "LoadRejected"}) =>
    editState = DefaultEdit

\* C4: the step of a commit whose image load fails calls onUpdateImage not at
\* all, leaves the items, the edit and editing mode as they were, and ends
\* saving, so that the save button is enabled again.
C4_LoadFailureKeepsEdit ==
  [][last'.op = "LoadRejected" =>
       /\ updateCalls' = updateCalls
       /\ images' = images
       /\ editState' = editState
       /\ isEditing' = isEditing
       /\ (Len(loads) = 1 => ~isSaving')]_vars

\* C4 witness: a load has just failed, the modal is still editing with a
\* non-default edit, and the save button is enabled.
C4_Witness ==
  /\ last.op = "LoadRejected"
  /\ Interactive
  /\ isEditing
  /\ editState # DefaultEdit
  /\ ~SaveDisabled

\* C5 (as claimed): the number of onUpdateImage calls equals the number of
\* commits whose image load succeeded.
C5_UpdatePerLoadedImage == updateCalls = loadsOk

\* C5 (amended): the number of onUpdateImage calls equals the number of
\* commits whose image load succeeded and whose drawing context was obtained,
\* and only the completion of such a commit calls it, once.
C5_UpdatePerRasterizedImage ==
  /\ [](updateCalls = loadsOk - noContext)
  /\ [][updateCalls' # updateCalls =>
          /\ last'.op = "LoadResolved"
          /\ updateCalls' = updateCalls + 1]_vars

\* C5 witness: two images loaded, one commit called onUpdateImage and one
\* got no drawing context.
C5_Witness ==
  /\ loadsOk = 2
  /\ noContext = 1
  /\ updateCalls = 1

\* C6: a save captures the image shown at the click, and the id the commit
\* gives to onUpdateImage is the id of that captured image.
C6_UpdateGoesToCapturedItem ==
  [][/\ (last'.op = "SaveButtonClick" /\ saves' # saves) =>
          loads'[Len(loads')].image = images[currentIndex + 1]
     /\ (last'.op = "LoadResolved" /\ updateCalls' # updateCalls) =>
          \E k \in 1..Len(loads) :
             /\ loads' = Remove(loads, k)
             /\ last'.arg = loads[k].image.id]_vars

\* C6 witness: a commit has just called onUpdateImage with the id of an item
\* other than the one now shown.
C6_Witness ==
  /\ last.op = "LoadResolved"
  /\ last.arg # ""
  /\ Interactive
  /\ images[currentIndex + 1].id # last.arg

\* C7: the success step of a commit calls onUpdateImage before it leaves
\* editing mode and resets the edit, and after it the modal is not editing
\* and the edit equals the defaults.
C7_SuccessEmitsThenResets ==
  [][(last'.op = "LoadResolved" /\ updateCalls' # updateCalls) =>
       /\ ~isEditing'
       /\ editState' = DefaultEdit
       /\ Len(last'.calls) >= 3
       /\ last'.calls[1] = "onUpdateImage"
       /\ \E i, j \in 2..Len(last'.calls) :
             last'.calls[i] = "setIsEditing" /\ last'.calls[j] = "resetEdits"]_vars

\* C7 witness: a commit has just succeeded: its item has a new url, the
\* modal is not editing and the edit is the default one.
C7_Witness ==
  /\ last.op = "LoadResolved"
  /\ last.calls[1] = "onUpdateImage"
  /\ \E i \in 1..Len(images) : images[i].id = last.arg /\ images[i].url > 0
  /\ ~isEditing
  /\ editState = DefaultEdit

\* C8: with the modal open, Escape calls onClose (and the modal closes)
\* exactly when editing mode is not active; while editing it ends editing
\* mode and leaves the modal open on the same item.
C8_EscapeClosesOnlyWhenNotEditing ==
  [][(last'.op = "handleKeyDown" /\ last'.arg = "Escape" /\ isOpen) =>
       IF isEditing
         THEN /\ last'.calls = <<>>
              /\ ~isEditing'
              /\ isOpen'
              /\ currentIndex' = currentIndex
              /\ images' = images
         ELSE /\ last'.calls = << "onClose" >>
              /\ ~isOpen']_vars

\* C8 witness: Escape was pressed while editing: the modal is still open
\* and no longer editing.
C8_Witness ==
  /\ last = Ev("handleKeyDown", "Escape", <<>>)
  /\ isOpen
  /\ ~isEditing

\* C9: while editing, next() and previous() yield the current index, and the
\* events that call them (arrow keys, the end of a swipe) leave currentIndex,
\* scale, pan, the edit and editing mode unchanged.
C9_NavigationIsNoOpWhileEditing ==
  /\ [](isEditing =>
          /\ handleNext(currentIndex) = currentIndex
          /\ handlePrev(currentIndex) = currentIndex)
  /\ [][(/\ isEditing
         /\ \/ last'.op = "handleTouchEnd"
            \/ (last'.op = "handleKeyDown" /\ last'.arg \in {"ArrowLeft", "ArrowRight"})) =>
          UNCHANGED << currentIndex, scale, position, editState, isEditing >>]_vars

\* C9 witness: an arrow key was pressed while editing an item of a gallery of
\* several items.
C9_Witness ==
  /\ last = Ev("handleKeyDown", "ArrowRight", <<>>)
  /\ isOpen
  /\ isEditing
  /\ Len(images) > 1

RECURSIVE IterateNext(_, _)
\* k calls of next() from index i.
IterateNext(k, i) == IF k = 0 THEN i ELSE IterateNext(k - 1, handleNext(i))

RECURSIVE IteratePrev(_, _)
\* k calls of previous() from index i.
IteratePrev(k, i) == IF k = 0 THEN i ELSE IteratePrev(k - 1, handlePrev(i))

\* C10: when not editing, next() yields (i+1) mod n and previous() yields
\* (i-1+n) mod n, n calls of either return to i, and the prev / next controls
\* set currentIndex to these values.
C10_Wraparound ==
  /\ [](~isEditing =>
          /\ handleNext(currentIndex) = (currentIndex + 1) % Len(images)
          /\ handlePrev(currentIndex) = (currentIndex - 1 + Len(images)) % Len(images)
          /\ IterateNext(Len(images), currentIndex) = currentIndex
          /\ IteratePrev(Len(images), currentIndex) = currentIndex)
  /\ [][/\ last'.op = "NextButtonClick" =>
             currentIndex' = (currentIndex + 1) % Len(images)
        /\ last'.op = "PrevButtonClick" =>
             currentIndex' = (currentIndex - 1 + Len(images)) % Len(images)]_vars

\* C10 witness: in a gallery of three or more items the prev control has
\* just wrapped from the first item to the last.
C10_Witness ==
  /\ last.op = "PrevButtonClick"
  /\ Len(images) >= 3
  /\ depCurrentIndex = 0
  /\ currentIndex = Len(images) - 1

\* C11: a key, the end of a swipe or a prev / next control changes
\* currentIndex only from a state with scale 1 and not editing; an arrow key
\* or the end of a swipe handled while zoomed or editing leaves currentIndex
\* unchanged; and the prev / next controls are clicked only at scale 1 and
\* not editing, being rendered in no other state.
C11_NavigationOnlyUnzoomedNotEditing ==
  [][/\ (/\ last'.op \in {"handleKeyDown", "handleTouchEnd",
                          "PrevButtonClick", "NextButtonClick"}
         /\ currentIndex' # currentIndex) =>
            (scale = UnitScale /\ ~isEditing)
     /\ (/\ last'.op \in {"handleKeyDown", "handleTouchEnd"}
         /\ (scale > UnitScale \/ isEditing)) =>
            currentIndex' = currentIndex
     /\ last'.op \in {"PrevButtonClick", "NextButtonClick"} =>
            (scale = UnitScale /\ ~isEditing /\ NavArrowsRendered)]_vars

\* C11 witness: an arrow key was handled while zoomed in on an item of a
\* gallery of several items, and the item shown is still the one opened.
C11_Witness ==
  /\ last = Ev("handleKeyDown", "ArrowRight", <<>>)
  /\ isOpen
  /\ scale = ZoomedScale
  /\ Len(images) > 1
  /\ currentIndex = initialIndex
  /\ ~EffectsPending

\* C12: the end of a swipe at scale 1 and not editing, with a touch start
\* recorded and distance = start - end: beyond 50 it sets currentIndex to
\* (i+1) mod n, beyond -50 to (i-1+n) mod n, and otherwise (49, exactly 50)
\* leaves it unchanged.
C12_SwipeThreshold ==
  [][\A x \in SwipeXs :
       (/\ handleTouchEnd(x)
        /\ scale = UnitScale /\ ~isEditing /\ touchStartRef # <<>>) =>
          currentIndex' =
            IF touchStartRef[1] - x > 50
              THEN (currentIndex + 1) % Len(images)
              ELSE IF touchStartRef[1] - x < -50
                     THEN (currentIndex - 1 + Len(images)) % Len(images)
                     ELSE currentIndex]_vars

\* C12 witness: a swipe of exactly 50 has just ended on an item of a gallery
\* of three or more items and the item shown has not changed.
C12_Witness ==
  /\ last = Ev("handleTouchEnd", "50", <<>>)
  /\ Len(images) >= 3
  /\ currentIndex = depCurrentIndex
  /\ scale = UnitScale /\ ~isEditing

\* C13: the zoom button at scale 1 zooms in; from then on, whatever pans
\* were made, a toggle of the zoom (the zoom button, or a click on the image
\* that ends no drag) gives scale 1 and pan (0,0).
C13_ZoomOffRestoresView ==
  [][/\ (last'.op = "ZoomButtonClick" /\ scale = UnitScale) =>
            scale' = ZoomedScale
     /\ (/\ scale > UnitScale
         /\ \/ last'.op = "ZoomButtonClick"
            \/ (last'.op = "handleImageClick" /\ ~hasMovedRef /\ ~isEditing)) =>
            (scale' = UnitScale /\ position' = Origin)]_vars

\* C13 witness: the zoom button has just zoomed out after a pan move was
\* applied during the zoom.
C13_Witness ==
  /\ last.op = "ZoomButtonClick"
  /\ hasMovedRef
  /\ scale = UnitScale
  /\ position = Origin

\* C14 (as claimed): when App has just opened the modal and no effect is
\* pending, the item shown is the one of the initial index, at scale 1 with
\* pan (0,0), not editing and with the default edit.
C14_OpenStartsFresh ==
  (last.op = "openGallery" /\ ~EffectsPending) =>
    /\ currentIndex = initialIndex
    /\ scale = UnitScale
    /\ position = Origin
    /\ ~isEditing
    /\ editState = DefaultEdit

\* C15 (as claimed): while the modal is open over an empty list or at an
\* initial index outside the list, it renders nothing, no render reads an
\* item that does not exist, and currentIndex stays a number.
C15_NoOpOpen ==
  (isOpen /\ (Len(images) = 0 \/ initialIndex \notin 0..(Len(images) - 1))) =>
    /\ ~Rendered
    /\ ~RenderFaults
    /\ currentIndex # NaN

\* C15 (as claimed), the part on key events alone: over an empty list no key
\* event makes currentIndex NaN.
C15_KeysKeepIndex ==
  (isOpen /\ Len(images) = 0) => currentIndex # NaN

\* C15 (as claimed), the part on faults alone: no render reads an item that
\* does not exist.
C15_NoFault == ~RenderFaults

\* The rotation r is an odd multiple of 90 degrees.
OddQuarterTurns(r) == (r \div 90) % 2 = 1

\* The canvas c has the size of img with width and height swapped exactly
\* when the rotation r is an odd multiple of 90 degrees.
SizeFollowsRotation(c, img, r) ==
  IF OddQuarterTurns(r)
    THEN c.width = img.height /\ c.height = img.width
    ELSE c.width = img.width /\ c.height = img.height

\* C16: for every edit and every natural size of the source, the canvas of
\* the commit has the source's width and height swapped if and only if the
\* rotation is an odd multiple of 90, positive or negative (90 on W x H gives
\* H x W); and every commit that draws its canvas gives it that size.
C16_RasterSizeFollowsRotation ==
  /\ [](\A img \in ImageInputs :
          /\ SizeFollowsRotation(drawCanvas(img, editState), img, editState.rotate)
          /\ drawCanvas(img, [editState EXCEPT !.rotate = 90]) =
               [drawCanvas(img, [editState EXCEPT !.rotate = 90])
                  EXCEPT !.width = img.height, !.height = img.width])
  /\ [][(last'.op = "LoadResolved" /\ updateCalls' # updateCalls) =>
          /\ \E k \in 1..Len(loads) : last'.edit = loads[k].editState
          /\ SizeFollowsRotation(last'.canvas, last'.img, last'.edit.rotate)]_vars

\* C16 witness: a commit with a negative odd rotation has just drawn a
\* canvas of a source wider than high, and the canvas is higher than wide.
C16_Witness ==
  /\ last.op = "LoadResolved"
  /\ last.calls[1] = "onUpdateImage"
  /\ last.edit.rotate = -270
  /\ last.img.width > last.img.height
  /\ last.canvas.width = last.img.height
  /\ last.canvas.height = last.img.width

\* Four quarter turns of the rotate button applied to the edit e.
FourTurns(e) == rotateQuarterTurn(rotateQuarterTurn(rotateQuarterTurn(rotateQuarterTurn(e))))

\* C17: the stored rotation is always a multiple of 90 and the rotate button
\* changes it by one quarter turn; four quarter turns from any edit give an
\* edit whose commit has the same canvas (size, transform, filter) and the
\* same rotation modulo 360; and every commit draws the canvas of its
\* rotation taken modulo 360.
C17_RotationModulo360 ==
  /\ [](/\ editState.rotate % 90 = 0
        /\ Turn(FourTurns(editState).rotate) = Turn(editState.rotate)
        /\ \A img \in ImageInputs :
              drawCanvas(img, FourTurns(editState)) = drawCanvas(img, editState))
  /\ [][/\ last'.op = "RotateButtonClick" =>
             editState' = [editState EXCEPT !.rotate = editState.rotate - 90]
        /\ (last'.op = "LoadResolved" /\ updateCalls' # updateCalls) =>
             last'.canvas =
               drawCanvas(last'.img,
                          [last'.edit EXCEPT !.rotate = Turn(last'.edit.rotate)])]_vars

\* C17 witness: a commit whose stored rotation is four quarter turns from 0
\* has just drawn, on a source wider than high, the canvas of rotation 0.
C17_Witness ==
  /\ last.op = "LoadResolved"
  /\ last.calls[1] = "onUpdateImage"
  /\ last.edit.rotate = -360
  /\ last.img.width > last.img.height
  /\ last.canvas = drawCanvas(last.img, [last.edit EXCEPT !.rotate = 0])
  /\ last.canvas.width = last.img.width

\* C18: two flip toggles from any edit restore its flip, filter and rotation,
\* so that a commit after them draws the same canvas; one toggle inverts the
\* flip alone and changes the transform; and the flip button is one toggle.
C18_FlipIsInvolution ==
  /\ [](/\ toggleFlip(toggleFlip(editState)) = editState
        /\ toggleFlip(editState) = [editState EXCEPT !.flip = ~editState.flip]
        /\ \A img \in ImageInputs :
              /\ drawCanvas(img, toggleFlip(toggleFlip(editState))) =
                    drawCanvas(img, editState)
              /\ drawCanvas(img, toggleFlip(editState)).transform #
                    drawCanvas(img, editState).transform)
  /\ [][last'.op = "FlipButtonClick" =>
          editState' = [editState EXCEPT !.flip = ~editState.flip]]_vars

\* C18 witness: the flip button has just taken a flipped, rotated and
\* filtered edit back to not flipped.
C18_Witness ==
  /\ last.op = "FlipButtonClick"
  /\ ~editState.flip
  /\ editState.rotate # 0
  /\ editState.filter # "none"

\* C19 (as claimed): while the modal is closed the window has no keydown
\* listener of the modal.
C19_ListenerOnlyWhileOpen == ~isOpen => ~KeyListenerAttached

\* C19, what the code does instead: a key pressed while the modal is closed
\* runs handleKeyDown, which returns at once and changes nothing.
C19_ClosedKeysDoNothing ==
  [][(last'.op = "handleKeyDown" /\ ~isOpen) =>
       UNCHANGED << isOpen, initialIndex, images, currentIndex, isEditing,
                    editState, isSaving, scale, position, isDragging >>]_vars

\* C20: in every state scale is 1 or 2.5, and at scale 1 the pan is (0,0).
C20_PanOnlyWhenZoomed ==
  /\ scale \in {UnitScale, ZoomedScale}
  /\ scale = UnitScale => position = Origin

\* C20 witness: a pointer move has just been handled at scale 1 while a drag
\* begun during a zoom was still marked as going on and had moved the image;
\* the pan is (0,0).
C20_Witness ==
  /\ last.op = "handlePointerMove"
  /\ isDragging
  /\ hasMovedRef
  /\ scale = UnitScale
  /\ position = Origin

\* C21: while editing, scale is 1 and the pan is (0,0): the edit button sets
\* both, and while editing no pointer-down, pointer-move, image click or zoom
\* button changes scale or pan or starts a pan.
C21_EditingSuppressesPanZoom ==
  /\ [](isEditing => scale = UnitScale /\ position = Origin)
  /\ [][last'.op = "EditButtonClick" =>
          isEditing' /\ scale' = UnitScale /\ position' = Origin]_vars
  /\ [][(isEditing /\ last'.op \in {"handlePointerDown", "handlePointerMove",
                                    "handleImageClick", "ZoomButtonClick"}) =>
          UNCHANGED << scale, position, isDragging, dragStartRef >>]_vars

\* C21 witness: a click on the image has just been handled while editing, at
\* scale 1 and pan (0,0).
C21_Witness ==
  /\ last.op = "handleImageClick"
  /\ isEditing
  /\ scale = UnitScale
  /\ position = Origin

\* C22: every pan gesture ends: while dragging, a pointer-up and also a
\* pointer-cancel leave the gesture engine idle, with dragging false and the
\* drag origin cleared.
C22_PanGestureEnds ==
  [][(isDragging /\ last'.op \in {"handlePointerUp", "PointerCancel"}) =>
       ~isDragging' /\ dragStartRef' = <<>>]_vars

\* The part of C22 about pointer-up: while dragging, a handled pointer-up
\* ends the pan.
C22_PointerUpEndsPan ==
  [][(isDragging /\ last'.op = "handlePointerUp") =>
       ~isDragging' /\ dragStartRef' = <<>>]_vars

\* A pointer-cancel has just happened during a pan, and the pan goes on.
C22_StuckPanning ==
  /\ last.op = "PointerCancel"
  /\ isDragging
  /\ dragStartRef # <<>>

\* The first part of C23: setPointerCapture is called exactly by the
\* pointer-down that starts a pan.
AcquiredOnPanStart ==
  last'.op = "handlePointerDown" =>
    /\ (last'.calls = << "setPointerCapture" >>) <=> (scale > UnitScale /\ ~isEditing)
    /\ (ptr' = "captured") <=> (last'.calls = << "setPointerCapture" >>)
    /\ (last'.calls = << "setPointerCapture" >>) => isDragging'

\* The second part of C23: the pointer-up or pointer-cancel that ends a
\* gesture whose pointer is captured calls releasePointerCapture, once.
ReleasedWhenGestureEnds ==
  (ptr = "captured" /\ last'.op \in {"handlePointerUp", "PointerCancel"}) =>
    last'.calls = << "releasePointerCapture" >>

\* The third part of C23: releasePointerCapture is called only for a pointer
\* that is captured.
NoReleaseWithoutAcquisition ==
  (last'.op = "handlePointerUp" /\ last'.calls = << "releasePointerCapture" >>) =>
    ptr = "captured"

\* C23: the pointer is captured by the pointer-down that starts a pan, every
\* capture is released by exactly one call when the gesture ends, and no
\* release is called without a capture.
C23_CaptureReleasedOncePerGesture ==
  [][AcquiredOnPanStart /\ ReleasedWhenGestureEnds /\ NoReleaseWithoutAcquisition]_vars

\* The parts of C23 one by one.
C23_AcquiredOnPanStart == [][AcquiredOnPanStart]_vars

C23_ReleasedWhenGestureEnds == [][ReleasedWhenGestureEnds]_vars

C23_NoReleaseWithoutAcquisition == [][NoReleaseWithoutAcquisition]_vars

\* The zoom as toggleZoom leaves it when not editing: from 1 to 2.5 keeping
\* the pan, from 2.5 to 1 with the pan at (0,0).
Toggled ==
  IF scale > UnitScale
    THEN scale' = UnitScale /\ position' = Origin
    ELSE scale' = ZoomedScale /\ position' = position

\* C24: a click on the image toggles the zoom when the moved flag is clear
\* and the modal is not editing, and changes neither scale nor pan when the
\* flag is set; the flag is set only by a pointer move that pans, and cleared
\* by every pointer-down and every click and by nothing else, so it is set at
\* a click exactly when a pan move was applied since the pointer went down.
C24_TapTogglesDragDoesNot ==
  /\ [][(last'.op = "handleImageClick" /\ ~hasMovedRef /\ ~isEditing) => Toggled]_vars
  /\ [][(last'.op = "handleImageClick" /\ hasMovedRef) =>
          UNCHANGED << scale, position >>]_vars
  /\ [][last'.op \in {"handlePointerDown", "handleImageClick"} => ~hasMovedRef']_vars
  /\ [][(hasMovedRef /\ ~hasMovedRef') =>
          last'.op \in {"handlePointerDown", "handleImageClick"}]_vars
  /\ [][(~hasMovedRef /\ hasMovedRef') =>
          (last'.op = "handlePointerMove" /\ isDragging /\ scale > UnitScale)]_vars
  /\ [][(last'.op = "handlePointerMove" /\ position' # position) => hasMovedRef']_vars

\* C24 witness: not editing, a click on the image has just been handled
\* without toggling the zoom, the image zoomed and panned by the drag that
\* the click ended.
C24_Witness ==
  /\ last.op = "handleImageClick"
  /\ last.calls = <<>>
  /\ ~isEditing
  /\ scale = ZoomedScale
  /\ position # Origin
  /\ ~hasMovedRef

\* A tap has just toggled the zoom of a panned image back to 1.
C24_TapWitness ==
  /\ last.op = "handleImageClick"
  /\ last.calls = << "toggleZoom" >>
  /\ scale = UnitScale

\* C25: in every state dragging implies scale > 1 and not editing.
C25_DraggingOnlyZoomedNotEditing ==
  isDragging => (scale > UnitScale /\ ~isEditing)

\* The second half of C25: a pointer move at scale 1 or while editing leaves
\* the pan alone.
C25_NoPanAtUnitScaleOrEditing ==
  [][(last'.op = "handlePointerMove" /\ (scale = UnitScale \/ isEditing)) =>
       UNCHANGED position]_vars

\* Dragging while editing, after a pointer move that left the pan alone.
C25_DraggingWhileEditing ==
  /\ last.op = "handlePointerMove"
  /\ isDragging
  /\ isEditing
  /\ position = Origin

\* C26: saving is a sub-state of editing: in every state isSaving implies
\* isEditing (and so the modal open), whatever the user does while a commit
\* is in flight.
C26_SavingImpliesEditing ==
  isSaving => (isEditing /\ isOpen)

\* A commit in flight with the modal closed.
C26_SavingWhileClosed ==
  /\ isSaving
  /\ loads # <<>>
  /\ ~isEditing
  /\ ~isOpen

\* C27: the successful completion of a commit of one item, while the user is
\* editing another item, leaves the modal editing and the pending edit of
\* that other item unchanged.
C27_CompletionKeepsOtherSession ==
  [][(/\ last'.op = "LoadResolved"
      /\ updateCalls' # updateCalls
      /\ isEditing
      /\ last'.arg # images[currentIndex + 1].id) =>
       (isEditing' /\ editState' = editState)]_vars

\* The step that ends a commit in failure: the image failed to load, or it
\* loaded and getContext gave null.
CommitFails ==
  \/ last'.op = "LoadRejected"
  \/ last'.op = "LoadResolved" /\ noContext' # noContext

\* C28: every commit in flight eventually leaves saving; the step that ends
\* it, in success or in failure, sets isSaving to false, so that the save
\* button is enabled again, and leaves the modal as open as it was and its
\* list and index alone but for the url written by a success; a failure is
\* caught: it alerts, and leaves the editing mode and the edit as they were.
C28_CommitSettles ==
  /\ isSaving ~> ~isSaving
  /\ (loads # <<>>) ~> (loads = <<>>)
  /\ [][last'.op \in {"LoadResolved", "LoadRejected"} =>
          /\ ~isSaving' /\ ~SaveDisabled'
          /\ UNCHANGED << isOpen, initialIndex, currentIndex >>
          /\ Len(images') = Len(images)
          /\ "setIsSaving" \in {last'.calls[i] : i \in 1..Len(last'.calls)}]_vars
  /\ [][CommitFails =>
          /\ "alert" \in {last'.calls[i] : i \in 1..Len(last'.calls)}
          /\ UNCHANGED << images, results, appVars, isEditing, editState >>]_vars

\* C28 witness: after a commit that failed, with the modal still open and
\* editing, a new save has just been accepted and is in flight.
C28_Witness ==
  /\ last.op = "SaveButtonClick"
  /\ last.arg = ""
  /\ saves = 2
  /\ loadsOk + noContext < 2
  /\ updateCalls = 0
  /\ isSaving
  /\ isOpen /\ isEditing

\* The list the modal is handed is the gallery of App's results.
ImagesDerived == images = GalleryOf(results)

\* C29: with the modal open over a list that is not empty, currentIndex is an
\* index of the list.
C29_IndexInRange ==
  Rendered => currentIndex \in 0..(Len(images) - 1)

\* The modal has just been opened, no effect is pending, and currentIndex is
\* not an index of the list: the index kept from the last time it was open.
C29_StaleIndexOnOpen ==
  /\ last.op = "openGallery"
  /\ ~EffectsPending
  /\ RenderFaults
  /\ currentIndex = 1
  /\ Len(images) = 1

\* The step in which a commit calls onUpdateImage.
UpdateStep == last'.op = "LoadResolved" /\ updateCalls' # updateCalls

\* Across an update, App's results keep their number, order, theme ids and
\* loading flags, the result of the updated id gets an image and every other
\* result keeps its own.
ResultsFrame ==
  UpdateStep =>
    /\ Len(results') = Len(results)
    /\ \A i \in 1..Len(results) :
         /\ results'[i].themeId = results[i].themeId
         /\ results'[i].isLoading = results[i].isLoading
         /\ results[i].themeId # last'.arg => results'[i].imageUrl = results[i].imageUrl
         /\ results[i].themeId = last'.arg => results'[i].imageUrl # <<>>

\* Across an update, the gallery list keeps its number, order and ids, and
\* every item but the updated one keeps its url.
GalleryFrame ==
  UpdateStep =>
    /\ Len(images') = Len(images)
    /\ \A i \in 1..Len(images) :
         /\ images'[i].id = images[i].id
         /\ images[i].id # last'.arg => images'[i].url = images[i].url

\* The results, and with them the gallery list, are written by App's
\* handlers only: by handleImageUpdate, called once by the commit, and by
\* upload, restart, generate and the settling of a generation.
ModalNeverWrites ==
  (results' # results \/ images' # images) =>
    \/ UpdateStep /\ updateCalls' = updateCalls + 1
    \/ last'.op \in {"handleImageUpload", "RestartButtonClick", "handleGenerate",
                    "processVariation"}

\* C30: the caller's handling of onUpdateImage(id, newUrl) replaces the image
\* of the item with that id and nothing else: every other item's url, and the
\* number, order and ids of the items of the gallery list, are unchanged; the
\* modal never writes the list.
C30_UpdateReplacesOneReference ==
  [][ResultsFrame /\ GalleryFrame /\ ModalNeverWrites]_vars

\* The parts of C30 that are about App's results and about the modal.
C30_ResultsFrame == [][ResultsFrame /\ ModalNeverWrites]_vars

\* The id of the item the modal shows, and that a save would capture
\* (images[currentIndex], lines 172 and 221).
DisplayedId == images[currentIndex + 1].id

\* C31: while the modal is open and showing an item, the id of the item
\* shown, which is the item a pending edit would be committed to, changes
\* only when currentIndex changes; so it is the same after the list gained an
\* item as before.
C31_IdentityFollowsIndex ==
  [][(/\ Rendered /\ ~RenderFaults
      /\ Rendered' /\ ~RenderFaults'
      /\ currentIndex' = currentIndex) =>
       DisplayedId' = DisplayedId]_vars

\* The list has just gained an item while the modal is open and editing, and
\* the item at currentIndex is now the new one.
C31_EditMovedToInsertedItem ==
  /\ last.op = "processVariation"
  /\ Interactive /\ isEditing
  /\ Len(images) = 2
  /\ currentIndex = 0
  /\ DisplayedId = last.arg

\* The first part of C32: handleGenerate starts a run only while App is not
\* generating.
GenerateOnlyWhenIdle ==
  last'.op = "handleGenerate" => (~isGenerating /\ isGenerating' /\ run' = run + 1)

\* The second part of C32: a settled request that writes an image into a
\* result was issued by the latest run.
SlotsFilledByLatestRun ==
  (last'.op = "processVariation" /\ last'.wrote) => last'.run = run

\* C32: an image stored in a result always comes from a request of the most
\* recent generation run: handleGenerate is ignored while generating, and a
\* response of an earlier run never fills or overwrites a result of the run
\* started after a restart and a new upload.
C32_ImagesComeFromLatestRun ==
  [][GenerateOnlyWhenIdle /\ SlotsFilledByLatestRun]_vars

\* The first part of C32 alone.
C32_GenerateOnlyWhenIdle == [][GenerateOnlyWhenIdle]_vars

\* A response of the first run has just given its image to a result of the
\* second run.
C32_StaleResponseStored ==
  /\ last.op = "processVariation"
  /\ last.wrote
  /\ last.run = 1
  /\ run = 2
  /\ \E i \in 1..Len(results) :
       results[i].themeId = last.arg /\ results[i].imageUrl # <<>>

====
